---------------------------- MODULE Spec2Model ----------------------------
(***************************************************************************)
(* Model of pokedex.py: a one-shot command-line pipeline                   *)
(*   read-input -> fetch -> extract -> display -> persist.                 *)
(*                                                                         *)
(* Strings are sequences of one-character strings so that lower(),         *)
(* strip(), replace() and capitalize() are computed, not assumed.          *)
(* The environment (the typed line, the HTTP outcome, the behaviour of the *)
(* requests library on an unparsable body, the filesystem) is chosen       *)
(* nondeterministically.                                                   *)
(***************************************************************************)
EXTENDS Integers, Sequences, FiniteSets, TLC

VARIABLES
    pc,               \* position of ejecutar_pokedex
    build,            \* installed requests library: is its JSON error a RequestException?
    nombre_busqueda,  \* the line read by input()
    requests,         \* URLs of the GET requests issued so far
    resp,             \* the outcome the network gave to the request of this run
    datos_completos,  \* value returned by obtener_datos_pokemon
    info_a_guardar,   \* value returned by extraer_informacion_relevante
    stdout,           \* messages printed so far
    dirState,         \* the entry "pokedex" of the working directory
    files,            \* the files under pokedex/, by path
    fs0,              \* the filesystem at program start
    trace,            \* stages executed so far, in order
    mkOutcome,        \* what os.makedirs did in this run
    wrOutcome,        \* what open()/json.dump did in this run
    calls,            \* history of guardar_informacion_json calls (persister harness)
    queries,          \* the two query strings (fetcher harness)
    service,          \* the remote service, URL -> outcome (fetcher harness)
    resultados        \* what each fetch of the harness requested and returned

vars == <<pc, build, nombre_busqueda, requests, resp, datos_completos,
          info_a_guardar, stdout, dirState, files, fs0, trace, mkOutcome,
          wrOutcome, calls, queries, service, resultados>>

---------------------------------------------------------------------------
(* Bounds *)

\* longest move list the service returns (must exceed LimiteMovimientos)
MaxMoves == 6

\* longest sequence of guardar_informacion_json calls in the persister harness
MaxCalls == 3

\* the slice bound of datos_pokemon["moves"][:5]
LimiteMovimientos == 5

---------------------------------------------------------------------------
(* Python str methods *)

ToLower(c) == CASE c = "A" -> "a" [] c = "B" -> "b" [] OTHER -> c

ToUpper(c) == CASE c = "a" -> "A" [] c = "b" -> "B" [] OTHER -> c

IsSpace(c) == c = " "

RECURSIVE StrLower(_)
StrLower(s) == IF s = <<>> THEN <<>> ELSE <<ToLower(Head(s))>> \o StrLower(Tail(s))

RECURSIVE StrLStrip(_)
StrLStrip(s) == IF s # <<>> /\ IsSpace(Head(s)) THEN StrLStrip(Tail(s)) ELSE s

RECURSIVE StrRStrip(_)
StrRStrip(s) ==
    IF s # <<>> /\ IsSpace(s[Len(s)]) THEN StrRStrip(SubSeq(s, 1, Len(s) - 1)) ELSE s

StrStrip(s) == StrRStrip(StrLStrip(s))

RECURSIVE StrReplace(_, _, _)
StrReplace(s, old, new) ==
    IF s = <<>> THEN <<>>
    ELSE <<IF Head(s) = old THEN new ELSE Head(s)>> \o StrReplace(Tail(s), old, new)

\* str.capitalize(): first character upper-cased, the rest lower-cased
StrCapitalize(s) ==
    IF s = <<>> THEN <<>> ELSE <<ToUpper(Head(s))>> \o StrLower(Tail(s))

\* the slice xs[-n:], the last n entries instead of the first
SliceUltimos(xs, n) == SubSeq(xs, IF Len(xs) < n THEN 1 ELSE Len(xs) - n + 1, Len(xs))

\* list slice xs[:n]
Slice(xs, n) == SubSeq(xs, 1, IF Len(xs) < n THEN Len(xs) ELSE n)

---------------------------------------------------------------------------
(* Module constants *)

BASE_URL == <<"https://pokeapi.co/api/v2/pokemon/">>

POKEDEX_FOLDER == <<"pokedex">>

---------------------------------------------------------------------------
(* The environment's data *)

\* lines the user may type
Lines ==
    { <<>>, <<" ">>, <<" ", " ">>, <<"a", "b">>, <<" ", "A", "B", " ">>,
      <<"A", "b">>, <<"b">> }

\* entity names the service knows
ApiNames == { <<"a", "b">>, <<"a", " ", "b">>, <<"a", "_", "b">> }

\* move names the service uses
MoveNames == { <<"a", "-", "b">>, <<"B", "a">> }

RECURSIVE SeqsUpTo(_, _)
SeqsUpTo(S, n) ==
    IF n = 0 THEN { <<>> }
    ELSE LET shorter == SeqsUpTo(S, n - 1)
         IN  shorter \cup { Append(xs, x) : xs \in { ys \in shorter : Len(ys) = n - 1 }, x \in S }

\* the keys extraer_informacion_relevante subscripts at the top level
RequiredKeys ==
    { "name", "id", "weight", "height", "sprites", "types", "abilities", "moves" }

\* A response body.  shape: "dict", "list", "text" (not JSON) or "none" (Python None);
\* keys: which of RequiredKeys a dict holds; extra: whether it holds other keys;
\* n: the length of a list.
MkBody(shape, keys, extra, n, name, moves) ==
    [ shape |-> shape, keys |-> keys, extra |-> extra, n |-> n,
      name |-> name, id |-> 25, weight |-> 60, height |-> 4,
      front_default |-> <<"img">>,
      types |-> << <<"a">>, <<"b">> >>,
      abilities |-> << <<"a", "-", "b">> >>,
      moves |-> moves ]

None == MkBody("none", {}, FALSE, 0, <<>>, <<>>)

WellFormed(name, moves) == MkBody("dict", RequiredKeys, TRUE, 0, name, moves)

WellFormedBodies ==
    { WellFormed(name, moves) : name \in ApiNames, moves \in SeqsUpTo(MoveNames, MaxMoves) }

MalformedBodies ==
    { MkBody("dict", {}, FALSE, 0, <<>>, <<>>),           \* {}
      MkBody("dict", {}, TRUE, 0, <<>>, <<>>),            \* the list endpoint's {"count": ..}
      MkBody("list", {}, FALSE, 0, <<>>, <<>>),           \* []
      MkBody("list", {}, FALSE, 1, <<>>, <<>>),           \* [..]
      MkBody("text", {}, FALSE, 0, <<>>, <<>>) }          \* not JSON
    \cup { MkBody("dict", RequiredKeys \ {k}, TRUE, 0, <<"a", "b">>, <<>>) : k \in RequiredKeys }

Bodies == WellFormedBodies \cup MalformedBodies

\* An outcome of requests.get: a connection-level failure, or a response
MkResp(kind, status, body) == [ kind |-> kind, status |-> status, body |-> body ]

NoResp == MkResp("none", 0, None)

FailureResponses ==
    { MkResp("conn_fail", 0, None), MkResp("http", 404, None),
      MkResp("http", 500, None), MkResp("http", 503, None) }

Responses == FailureResponses \cup { MkResp("http", 200, b) : b \in Bodies }

Msg(tag, arg) == [ tag |-> tag, arg |-> arg ]

---------------------------------------------------------------------------
(* obtener_datos_pokemon *)

\* strip() without lower()
nombre_sin_minusculas(nombre_pokemon) == StrStrip(nombre_pokemon)

nombre_normalizado(nombre_pokemon) == StrStrip(StrLower(nombre_pokemon))

url(nombre_pokemon) == BASE_URL \o nombre_normalizado(nombre_pokemon)

\* respuesta.json(): raises on a body that is not JSON
JsonRaises(body) == body.shape = "text"

\* The value returned (ret), the lines printed (out) and whether an exception
\* left the function (raised), for outcome r of the request.  jsonCaught: the
\* library's JSON error derives from RequestException (requests >= 2.27) and
\* is caught by the except clause; otherwise it is a plain ValueError.
obtener_datos_pokemon(nombre_pokemon, r, jsonCaught) ==
    IF r.kind = "conn_fail"
    THEN [ ret |-> None, out |-> <<Msg("connection_error", <<>>)>>, raised |-> FALSE ]
    ELSE IF r.status = 200
    THEN IF JsonRaises(r.body)
         THEN IF jsonCaught
              THEN [ ret |-> None, out |-> <<Msg("connection_error", <<>>)>>, raised |-> FALSE ]
              ELSE [ ret |-> None, out |-> <<>>, raised |-> TRUE ]
         ELSE [ ret |-> r.body, out |-> <<>>, raised |-> FALSE ]
    ELSE IF r.status = 404
    THEN [ ret |-> None, out |-> <<Msg("not_found", nombre_pokemon)>>, raised |-> FALSE ]
    ELSE [ ret |-> None, out |-> <<Msg("http_error", <<r.status>>)>>, raised |-> FALSE ]

---------------------------------------------------------------------------
(* extraer_informacion_relevante *)

\* a subscript of datos_pokemon raises (KeyError, TypeError)
ExtraerRaises(datos_pokemon) ==
    \/ datos_pokemon.shape # "dict"
    \/ ~ (RequiredKeys \subseteq datos_pokemon.keys)

Div10(x) == [ num |-> x, den |-> 10 ]

\* name.replace("-", " ").capitalize()
NombreHabilidad(s) == StrCapitalize(StrReplace(s, "-", " "))

\* [t["type"]["name"].capitalize() for t in ..]
RECURSIVE Tipos(_)
Tipos(xs) == IF xs = <<>> THEN <<>> ELSE <<StrCapitalize(Head(xs))>> \o Tipos(Tail(xs))

\* [a["ability"]["name"].replace("-", " ").capitalize() for a in ..], also for moves
RECURSIVE Habilidades(_)
Habilidades(xs) ==
    IF xs = <<>> THEN <<>> ELSE <<NombreHabilidad(Head(xs))>> \o Habilidades(Tail(xs))

extraer_informacion_relevante(datos_pokemon) ==
    [ nombre |-> StrCapitalize(datos_pokemon.name),
      id |-> datos_pokemon.id,
      peso_kg |-> Div10(datos_pokemon.weight),
      altura_m |-> Div10(datos_pokemon.height),
      imagen_frontal_url |-> datos_pokemon.front_default,
      tipos |-> Tipos(datos_pokemon.types),
      habilidades |-> Habilidades(datos_pokemon.abilities),
      movimientos_principales |->
          Habilidades(Slice(datos_pokemon.moves, LimiteMovimientos)) ]

NoInfo == extraer_informacion_relevante(None)

---------------------------------------------------------------------------
(* guardar_informacion_json *)

nombre_archivo(info_pokemon) ==
    StrReplace(StrLower(info_pokemon.nombre), " ", "_") \o <<".json">>

\* os.path.join(POKEDEX_FOLDER, nombre_archivo)
ruta_completa(info_pokemon) == POKEDEX_FOLDER \o <<"/">> \o nombre_archivo(info_pokemon)

\* json.dump(info_pokemon, ..): the document's members, in the dict's insertion order
json_dump(info_pokemon) ==
    << <<"nombre", info_pokemon.nombre>>,
       <<"id", info_pokemon.id>>,
       <<"peso_kg", info_pokemon.peso_kg>>,
       <<"altura_m", info_pokemon.altura_m>>,
       <<"imagen_frontal_url", info_pokemon.imagen_frontal_url>>,
       <<"tipos", info_pokemon.tipos>>,
       <<"habilidades", info_pokemon.habilidades>>,
       <<"movimientos_principales", info_pokemon.movimientos_principales>> >>

\* a file on disk
File(data) == [ exists |-> TRUE, data |-> data ]

Absent == [ exists |-> FALSE, data |-> <<>> ]

\* a file left by something else than this run
OldFile == File(<< <<"nombre", <<"o", "l", "d">>>> >>)

\* the records extraction can produce from a well-formed body
Infos ==
    { extraer_informacion_relevante(WellFormed(name, moves)) :
        name \in ApiNames, moves \in { <<>>, << <<"B", "a">> >> } }

Paths == { ruta_completa(i) : i \in Infos }

\* what os.makedirs(POKEDEX_FOLDER, exist_ok=True) can do: an existing directory
\* is a success, a non-directory of that name an error, and creating may fail
MkOutcomes(dir) ==
    IF dir = "dir" THEN { "ok" } ELSE IF dir = "file" THEN { "fail" } ELSE { "ok", "fail" }

\* what open(.., 'w') and json.dump can do: succeed, fail to open (the file is
\* untouched), or fail while writing (the file is truncated, with none or part
\* of the document in it)
WrOutcomes == { "ok", "open_fail", "write_fail_empty", "write_fail_partial" }

\* open(ruta, 'a'): what is written follows what the file held
escribir_al_final(fls, ruta, contenido) ==
    [ fls EXCEPT ![ruta] = [ exists |-> TRUE, data |-> fls[ruta].data \o contenido ] ]

\* open(ruta, 'w') then write: the file holds exactly what was written
escribir(fls, ruta, contenido) == [ fls EXCEPT ![ruta] = File(contenido) ]

\* step 3 of guardar_informacion_json: the try block around open and json.dump
escribir_json(info_pokemon, fls, wr) ==
    LET ruta == ruta_completa(info_pokemon)
        doc  == json_dump(info_pokemon)
    IN  IF wr = "ok"
        THEN [ dir |-> "dir", files |-> escribir(fls, ruta, doc),
               out |-> <<Msg("saved", ruta)>>, wr |-> wr ]
        ELSE IF wr = "open_fail"
        THEN [ dir |-> "dir", files |-> fls,
               out |-> <<Msg("write_error", ruta)>>, wr |-> wr ]
        ELSE [ dir |-> "dir",
               files |-> escribir(fls, ruta,
                                  IF wr = "write_fail_partial" THEN Slice(doc, 1) ELSE <<>>),
               out |-> <<Msg("write_error", ruta)>>, wr |-> wr ]

\* the function without the `return` of the first except clause
guardar_sin_return(info_pokemon, dir, fls, mk, wr) ==
    LET e == escribir_json(info_pokemon, fls, wr)
    IN  IF mk = "fail"
        THEN [ e EXCEPT !.out = <<Msg("mkdir_error", POKEDEX_FOLDER)>> \o e.out ]
        ELSE e

\* the whole function: the new filesystem, the lines printed, and what the
\* write did ("none": not attempted)
guardar_informacion_json(info_pokemon, dir, fls, mk, wr) ==
    IF mk = "fail"
    THEN [ dir |-> dir, files |-> fls,
           out |-> <<Msg("mkdir_error", POKEDEX_FOLDER)>>, wr |-> "none" ]
    ELSE escribir_json(info_pokemon, fls, wr)

---------------------------------------------------------------------------
(* ejecutar_pokedex, one action per stage *)

\* no test of the fetcher's result
SiempreContinua(datos) == TRUE

\* Python truthiness of the fetcher's result: `if datos_completos:`
Truthy(datos) ==
    \/ datos.shape = "dict" /\ (datos.keys # {} \/ datos.extra)
    \/ datos.shape = "list" /\ datos.n > 0

\* `if not nombre_busqueda:`
EntradaVacia(linea) == linea = <<>>

InitialFiles(dir) ==
    IF dir = "dir" THEN [ Paths -> { Absent, OldFile } ] ELSE { [ p \in Paths |-> Absent ] }

Init ==
    /\ pc = "input"
    /\ build \in BOOLEAN
    /\ nombre_busqueda = <<>>
    /\ requests = <<>>
    /\ resp = NoResp
    /\ datos_completos = None
    /\ info_a_guardar = NoInfo
    /\ stdout = <<>>
    /\ dirState \in { "absent", "dir", "file" }
    /\ files \in InitialFiles(dirState)
    /\ fs0 = [ dir |-> dirState, files |-> files ]
    /\ trace = <<>>
    /\ mkOutcome = "none"
    /\ wrOutcome = "none"
    /\ calls = <<>>
    /\ queries = <<>>
    /\ service = <<>>
    /\ resultados = <<>>

harness == <<calls, queries, service, resultados>>

\* lines 169-180: banner, input(), the emptiness check
LeerEntrada ==
    /\ pc = "input"
    /\ \E linea \in Lines :
         /\ nombre_busqueda' = linea
         /\ stdout' = stdout \o <<Msg("banner", <<>>)>>
                        \o (IF EntradaVacia(linea) THEN <<Msg("empty_input", <<>>)>> ELSE <<>>)
         /\ pc' = IF EntradaVacia(linea) THEN "done" ELSE "fetch"
    /\ trace' = Append(trace, "read")
    /\ UNCHANGED <<build, requests, resp, datos_completos, info_a_guardar, dirState,
                   files, fs0, mkOutcome, wrOutcome, harness>>

\* lines 183-186: the call of obtener_datos_pokemon and the test of its result
Obtener ==
    /\ pc = "fetch"
    /\ \E r \in Responses :
         LET o == obtener_datos_pokemon(nombre_busqueda, r, build)
         IN  /\ resp' = r
             /\ requests' = Append(requests, url(nombre_busqueda))
             /\ stdout' = stdout \o o.out
             /\ datos_completos' = o.ret
             /\ pc' = IF o.raised THEN "crashed"
                      ELSE IF Truthy(o.ret) THEN "extract" ELSE "done"
    /\ trace' = Append(trace, "fetch")
    /\ UNCHANGED <<build, nombre_busqueda, info_a_guardar, dirState, files, fs0,
                   mkOutcome, wrOutcome, harness>>

\* the extractor's exception swallowed: the run goes on to display
ExtraerSinFallo ==
    /\ pc = "extract"
    /\ info_a_guardar' = extraer_informacion_relevante(datos_completos)
    /\ pc' = "display"
    /\ trace' = Append(trace, "extract")
    /\ UNCHANGED <<build, nombre_busqueda, requests, resp, datos_completos, stdout,
                   dirState, files, fs0, mkOutcome, wrOutcome, harness>>

\* line 188: an exception of the extractor is caught nowhere
Extraer ==
    /\ pc = "extract"
    /\ IF ExtraerRaises(datos_completos)
       THEN pc' = "crashed" /\ UNCHANGED info_a_guardar
       ELSE /\ info_a_guardar' = extraer_informacion_relevante(datos_completos)
            /\ pc' = "display"
    /\ trace' = Append(trace, "extract")
    /\ UNCHANGED <<build, nombre_busqueda, requests, resp, datos_completos, stdout,
                   dirState, files, fs0, mkOutcome, wrOutcome, harness>>

\* line 191: mostrar_datos_pokemon prints the block and touches nothing else
Mostrar ==
    /\ pc = "display"
    /\ stdout' = Append(stdout, Msg("found", info_a_guardar.nombre))
    /\ pc' = "persist"
    /\ trace' = Append(trace, "display")
    /\ UNCHANGED <<build, nombre_busqueda, requests, resp, datos_completos,
                   info_a_guardar, dirState, files, fs0, mkOutcome, wrOutcome, harness>>

\* line 194: guardar_informacion_json, then the function returns
Guardar ==
    /\ pc = "persist"
    /\ \E mk \in MkOutcomes(dirState), wr \in WrOutcomes :
         LET g == guardar_informacion_json(info_a_guardar, dirState, files, mk, wr)
         IN  /\ dirState' = g.dir
             /\ files' = g.files
             /\ stdout' = stdout \o g.out
             /\ mkOutcome' = mk
             /\ wrOutcome' = g.wr
             /\ trace' = trace \o <<"mkdir">> \o (IF g.wr = "none" THEN <<>> ELSE <<"write">>)
    /\ pc' = "done"
    /\ UNCHANGED <<build, nombre_busqueda, requests, resp, datos_completos,
                   info_a_guardar, fs0, harness>>

Next == LeerEntrada \/ Obtener \/ Extraer \/ Mostrar \/ Guardar

Spec == Init /\ [][Next]_vars

---------------------------------------------------------------------------
(* Persister harness: any sequence of calls of guardar_informacion_json *)

InitPersist ==
    /\ pc = "harness"
    /\ build = TRUE
    /\ nombre_busqueda = <<>>
    /\ requests = <<>>
    /\ resp = NoResp
    /\ datos_completos = None
    /\ info_a_guardar = NoInfo
    /\ stdout = <<>>
    /\ dirState \in { "absent", "dir", "file" }
    /\ files \in InitialFiles(dirState)
    /\ fs0 = [ dir |-> dirState, files |-> files ]
    /\ trace = <<>>
    /\ mkOutcome = "none"
    /\ wrOutcome = "none"
    /\ calls = <<>>
    /\ queries = <<>>
    /\ service = <<>>
    /\ resultados = <<>>

GuardarCall ==
    /\ Len(calls) < MaxCalls
    /\ \E info \in Infos, mk \in MkOutcomes(dirState), wr \in WrOutcomes :
         LET g == guardar_informacion_json(info, dirState, files, mk, wr)
         IN  /\ dirState' = g.dir
             /\ files' = g.files
             /\ stdout' = stdout \o g.out
             /\ mkOutcome' = mk
             /\ wrOutcome' = g.wr
             /\ calls' = Append(calls, [ info |-> info, mk |-> mk, wr |-> g.wr ])
    /\ UNCHANGED <<pc, build, nombre_busqueda, requests, resp, datos_completos,
                   info_a_guardar, fs0, trace, queries, service, resultados>>

SpecPersist == InitPersist /\ [][GuardarCall]_vars

---------------------------------------------------------------------------
(* Fetcher harness: two calls of obtener_datos_pokemon against one service *)

PairQueries == { <<"a", "b">>, <<" ", "A", "B", " ">>, <<"b">> }

\* every address a request may name
Urls == { BASE_URL \o q : q \in PairQueries } \cup { url(q) : q \in PairQueries }

PairResponses ==
    { MkResp("conn_fail", 0, None), MkResp("http", 404, None), MkResp("http", 500, None),
      MkResp("http", 200, WellFormed(<<"a", "b">>, <<>>)),
      MkResp("http", 200, MkBody("text", {}, FALSE, 0, <<>>, <<>>)) }

InitFetch ==
    /\ pc = "harness"
    /\ build \in BOOLEAN
    /\ nombre_busqueda = <<>>
    /\ requests = <<>>
    /\ resp = NoResp
    /\ datos_completos = None
    /\ info_a_guardar = NoInfo
    /\ stdout = <<>>
    /\ dirState = "absent"
    /\ files = [ p \in Paths |-> Absent ]
    /\ fs0 = [ dir |-> dirState, files |-> files ]
    /\ trace = <<>>
    /\ mkOutcome = "none"
    /\ wrOutcome = "none"
    /\ calls = <<>>
    /\ queries \in PairQueries \X PairQueries
    /\ service \in [ Urls -> PairResponses ]
    /\ resultados = <<>>

FetchCall ==
    /\ Len(resultados) < Len(queries)
    /\ LET q == queries[Len(resultados) + 1]
           u == url(q)
           o == obtener_datos_pokemon(q, service[u], build)
       IN  /\ requests' = Append(requests, u)
           /\ stdout' = stdout \o o.out
           /\ resultados' = Append(resultados, [ url |-> u, ret |-> o.ret, raised |-> o.raised ])
    /\ UNCHANGED <<pc, build, nombre_busqueda, resp, datos_completos, info_a_guardar,
                   dirState, files, fs0, trace, mkOutcome, wrOutcome, calls, queries,
                   service>>

SpecFetch == InitFetch /\ [][FetchCall]_vars

---------------------------------------------------------------------------
(* Vocabulary of the properties *)

HasMsg(tag) == \E i \in 1..Len(stdout) : stdout[i].tag = tag

InTrace(stage) == \E i \in 1..Len(trace) : trace[i] = stage

Ended == pc \in { "done", "crashed" }

\* a line that is empty or only whitespace
Blank(linea) == \A i \in 1..Len(linea) : linea[i] = " "

\* the fetcher's failure modes: connection failure, 404, any other non-200 status
FetchFailed == resp.kind = "conn_fail" \/ (resp.kind = "http" /\ resp.status # 200)

FetchErrorTags == { "not_found", "http_error", "connection_error" }

FetchErrorsPrinted == { stdout[i].tag : i \in 1..Len(stdout) } \cap FetchErrorTags

Stages == <<"read", "fetch", "extract", "display", "mkdir", "write">>

\* the found block was printed, and before every filesystem message
DisplayedFirst ==
    \E i \in 1..Len(stdout) :
        /\ stdout[i].tag = "found"
        /\ \A j \in 1..Len(stdout) :
             stdout[j].tag \in { "mkdir_error", "write_error", "saved" } => i < j

\* the display transform of a move or ability name, character by character
Shown(s) ==
    [ j \in 1..Len(s) |->
        LET c == IF s[j] = "-" THEN " " ELSE s[j]
        IN  IF j = 1 THEN ToUpper(c) ELSE ToLower(c) ]

\* the path the record's name stands for
PathOfName(nombre) ==
    <<"pokedex", "/">>
      \o [ j \in 1..Len(nombre) |-> IF nombre[j] = " " THEN "_" ELSE ToLower(nombre[j]) ]
      \o <<".json">>

\* the user-visible error class of a message
ClassOfMsg(tag) ==
    CASE tag = "empty_input" -> "InputEmpty"
      [] tag = "not_found" -> "EntityNotFound"
      [] tag = "http_error" -> "ServiceError"
      [] tag = "connection_error" -> "ConnectionError"
      [] tag \in { "mkdir_error", "write_error" } -> "FilesystemError"
      [] OTHER -> "none"

\* the error the environment produced in this run, in pipeline order
ErrorOccurred ==
    IF Blank(nombre_busqueda) THEN "InputEmpty"
    ELSE IF resp.kind = "conn_fail" THEN "ConnectionError"
    ELSE IF resp.kind = "http" /\ resp.status = 404 THEN "EntityNotFound"
    ELSE IF resp.kind = "http" /\ resp.status # 200 THEN "ServiceError"
    ELSE IF resp.kind = "http" /\ ExtraerRaises(resp.body) THEN "DataShapeError"
    ELSE IF mkOutcome = "fail" \/ wrOutcome \notin { "none", "ok" } THEN "FilesystemError"
    ELSE "none"

---------------------------------------------------------------------------
(* Properties *)

\* C1: a run whose input line is empty or only whitespace prints the
\* empty-input message and ends without issuing any network request (so with
\* no extraction, display or write).
C1_BlankInputNeverFetches ==
    (pc # "input" /\ Blank(nombre_busqueda)) =>
        /\ requests = <<>>
        /\ ~ InTrace("fetch")
        /\ Ended => (pc = "done" /\ HasMsg("empty_input") /\ trace = <<"read">>)

\* C2: no outcome of the environment leaves the run in the uncaught-exception
\* state; in particular a data-shape error of the extractor is caught.  Stated
\* for the builds whose library turns an unparsable body into a caught error,
\* so that only the program's own handling is in question.
C2_NoUnhandledCrash == build => pc # "crashed"

\* C3: when the fetcher fails (404, another non-200 status, connection
\* failure) the run ends normally right after the fetch: nothing is
\* extracted, displayed or persisted, and the directory and files are as they
\* were at program start.
C3_FetchFailureStopsRun ==
    FetchFailed =>
        /\ pc = "done"
        /\ trace = <<"read", "fetch">>
        /\ datos_completos = None
        /\ info_a_guardar = NoInfo
        /\ ~ HasMsg("found") /\ ~ HasMsg("saved")
        /\ dirState = fs0.dir
        /\ files = fs0.files

C3_Witness ==
    /\ pc = "done"
    /\ resp.kind = "http" /\ resp.status = 404
    /\ \E p \in Paths : fs0.files[p] = OldFile

\* C4: a run that ends without having written its file has printed an error
\* message of the class of the error that occurred, including when the
\* service answers 200 with a body lacking the expected fields.  Stated for
\* runs whose input is not blank (blank input is C1's case).
C4_NoSilentFailure ==
    (Ended /\ ~ Blank(nombre_busqueda) /\ wrOutcome # "ok") =>
        \E i \in 1..Len(stdout) : ClassOfMsg(stdout[i].tag) = ErrorOccurred

\* C5: the fetcher maps the outcome of its request to exactly one of four
\* cases: 200 returns the parsed body and prints no error; 404 returns the
\* empty result and prints the not-found message; another status returns the
\* empty result and prints that status; a connection failure returns the empty
\* result and prints the connection message.  (An exception leaving the fetcher
\* shows as the crashed state before any extraction.)
C5_FourWayClassification ==
    resp.kind # "none" =>
        /\ (resp.kind = "http" /\ resp.status = 200) =>
              /\ ~ (pc = "crashed" /\ ~ InTrace("extract"))
              /\ datos_completos = resp.body
              /\ FetchErrorsPrinted = {}
        /\ (resp.kind = "http" /\ resp.status = 404) =>
              /\ datos_completos = None
              /\ FetchErrorsPrinted = { "not_found" }
        /\ (resp.kind = "http" /\ resp.status \notin { 200, 404 }) =>
              /\ datos_completos = None
              /\ FetchErrorsPrinted = { "http_error" }
              /\ \E i \in 1..Len(stdout) :
                   stdout[i].tag = "http_error" /\ stdout[i].arg = <<resp.status>>
        /\ resp.kind = "conn_fail" =>
              /\ datos_completos = None
              /\ FetchErrorsPrinted = { "connection_error" }

\* C6: filesystem failures of the persister are reported, not fatal, and come
\* after display.  A failed directory creation prints an error and attempts
\* no write; a failed write prints an error naming the target path; in both
\* cases the run ends normally, the record was displayed before, and no
\* success message is printed.  An existing directory counts as success and
\* the write goes ahead.
C6_FilesystemFailuresReported ==
    /\ mkOutcome = "fail" =>
          /\ pc = "done"
          /\ HasMsg("mkdir_error")
          /\ wrOutcome = "none" /\ ~ InTrace("write")
          /\ files = fs0.files
          /\ DisplayedFirst
          /\ ~ HasMsg("saved")
    /\ wrOutcome \in { "open_fail", "write_fail_empty", "write_fail_partial" } =>
          /\ pc = "done"
          /\ \E i \in 1..Len(stdout) :
               /\ stdout[i].tag = "write_error"
               /\ stdout[i].arg = PathOfName(info_a_guardar.nombre)
          /\ DisplayedFirst
          /\ ~ HasMsg("saved")
    /\ (fs0.dir = "dir" /\ InTrace("mkdir")) =>
          /\ mkOutcome = "ok"
          /\ ~ HasMsg("mkdir_error")
          /\ InTrace("write")

C6_Witness ==
    /\ pc = "done"
    /\ fs0.dir = "absent"
    /\ mkOutcome = "fail"

\* C7: the extracted move list has length min(5, n) for a source list of n
\* moves, and its i-th element is the i-th source move name with hyphens
\* replaced by spaces and then capitalized.
C7_FirstFiveMovesInOrder ==
    (pc \in { "display", "persist", "done" } /\ InTrace("extract")) =>
        LET src == datos_completos.moves
            got == info_a_guardar.movimientos_principales
        IN  /\ Len(got) = (IF Len(src) < 5 THEN Len(src) ELSE 5)
            /\ \A i \in 1..Len(got) : got[i] = Shown(src[i])

C7_Witness ==
    /\ pc = "display"
    /\ Len(datos_completos.moves) > 5
    /\ datos_completos.moves[1] # datos_completos.moves[6]

\* C8: persisting is an unconditional overwrite.  After any sequence of
\* successful calls, the file at the path derived from a record's name holds
\* exactly the serialization of the last record persisted to that path
\* (nothing of earlier contents, so persisting a record twice equals
\* persisting it once), and every other file is as it was at the start.
C8_LastWriteWins ==
    (\A i \in 1..Len(calls) : calls[i].mk = "ok" /\ calls[i].wr = "ok") =>
        \A p \in Paths :
            LET at == { i \in 1..Len(calls) : PathOfName(calls[i].info.nombre) = p }
                last == CHOOSE i \in at : \A j \in at : j <= i
            IN  files[p] = IF at = {} THEN fs0.files[p] ELSE File(json_dump(calls[last].info))

C8_Witness ==
    /\ Len(calls) >= 3
    /\ \A i \in 1..Len(calls) : calls[i].mk = "ok" /\ calls[i].wr = "ok"
    /\ calls[1].info # calls[2].info
    /\ PathOfName(calls[1].info.nombre) = PathOfName(calls[2].info.nombre)
    /\ calls[3].info = calls[2].info
    /\ \A p \in Paths : fs0.files[p] = OldFile

\* C9: the request depends only on the normalized query.  Two query strings
\* that are equal after lowercasing and trimming surrounding whitespace make
\* the fetcher request the same URL and, against the same service, return the
\* same result.
C9_NormalizedQueryDecides ==
    (Len(resultados) = 2 /\ StrStrip(StrLower(queries[1])) = StrStrip(StrLower(queries[2]))) =>
        /\ resultados[1].url = resultados[2].url
        /\ resultados[1].raised = resultados[2].raised
        /\ resultados[1].ret = resultados[2].ret

C9_Witness ==
    /\ Len(resultados) = 2
    /\ queries[1] = <<" ", "A", "B", " ">>
    /\ queries[2] = <<"a", "b">>
    /\ resultados[1].ret.shape = "dict"
    /\ service[BASE_URL \o queries[1]] # service[BASE_URL \o queries[2]]

\* C10: the stages of a run occur in the order read-input, fetch, extract,
\* display, persist, each at most once and only after the previous one
\* succeeded: at most one request, display only after a successful
\* extraction, a write only after display, at most one file written, and no
\* display and no write after a failed extraction.
C10_StagesInOrderOnce ==
    /\ Len(trace) <= Len(Stages) /\ trace = SubSeq(Stages, 1, Len(trace))
    /\ Len(requests) = (IF InTrace("fetch") THEN 1 ELSE 0)
    /\ InTrace("fetch") => nombre_busqueda # <<>>
    /\ InTrace("extract") =>
          (resp.kind = "http" /\ resp.status = 200 /\ datos_completos = resp.body)
    /\ InTrace("display") =>
          /\ ~ ExtraerRaises(datos_completos)
          /\ StrLower(info_a_guardar.nombre) = StrLower(datos_completos.name)
    /\ HasMsg("found") <=> InTrace("display")
    /\ InTrace("write") => (HasMsg("found") /\ mkOutcome = "ok")
    /\ Cardinality({ p \in Paths : files[p] # fs0.files[p] }) <= 1
    /\ files # fs0.files => InTrace("write")
    /\ (InTrace("extract") /\ ExtraerRaises(datos_completos)) =>
          /\ pc = "crashed"
          /\ trace = <<"read", "fetch", "extract">>
          /\ ~ HasMsg("found")
          /\ files = fs0.files

C10_Witness ==
    /\ pc = "done"
    /\ trace = Stages
    /\ wrOutcome = "ok"
    /\ \E p \in Paths : files[p] # fs0.files[p]

=============================================================================
